---- MODULE Spec2Model ----
(***************************************************************************)
(* A model of the AIFF/AIFC decoder of mattetti/exp (audio/aiff/decoder.go *)
(* and audio.IeeeFloatToInt).  The source holds two listings of            *)
(* decoder.go: lines 1-189 (iDnSize / jumpTo) and lines 191-420 (IDnSize / *)
(* dispatchToChan, NewDecoder).  The variable `variant` says which listing *)
(* a behaviour runs.  The stream is a sequence of bytes, read at `pos`.    *)
(***************************************************************************)
EXTENDS Integers, Sequences, FiniteSets, TLC

VARIABLES
    file,        \* the logical content the input stream was written from
    stream,      \* the bytes the io.ReadSeeker r can deliver
    errKind,     \* what r answers once its bytes are used up: "EOF" or "ioerr"
    variant,     \* 1: Decode of lines 42-95, 2: Decode of lines 248-297
    Chan,        \* d.Chan: "nil" or "chan"
    pos,         \* the read position of r
    pc,          \* where the engine is: start, loop, switch, wait, done
    d,           \* the Decoder's fields
    clip,        \* the Clip under construction
    rewindBytes, \* Decode's local rewindBytes
    id,          \* Decode's local id (the chunk header read last)
    size,        \* Decode's local size
    hdrErr,      \* the loop's local err, set by iDnSize
    ret,         \* what Decode returned: [clip, err]
    Wg,          \* d.Wg: the wait-group counter
    chanq,       \* the records sent on d.Chan and not yet received
    held,        \* the record the consumer holds, or NoChunk
    heldPos,     \* the bytes of its chunk the consumer has read
    run,         \* 1: the first call of Decode, 2: the call on the reordered file
    first,       \* what the first call returned, once a second call runs
    dur          \* what a call of Duration returned: [duration, err]

vars == <<file, stream, errKind, variant, Chan, pos, pc, d, clip, rewindBytes,
          id, size, hdrErr, ret, Wg, chanq, held, heldPos, run, first, dur>>

(***************************************************************************)
(* Bounds of the model.                                                    *)
(***************************************************************************)
\* other (non-COMM, non-SSND) chunks in an input file
MaxOther == 1
\* single-byte reads the consumer makes before it calls Done
MaxPeek == 1

(***************************************************************************)
(* Big-endian layout (encoding/binary, binary.BigEndian).                  *)
(***************************************************************************)
BE16(n) == <<(n \div 256) % 256, n % 256>>

BE32(n) == <<(n \div 16777216) % 256, (n \div 65536) % 256, (n \div 256) % 256, n % 256>>

U16(bs) == bs[1] * 256 + bs[2]

U32(bs) == ((bs[1] * 256 + bs[2]) * 256 + bs[3]) * 256 + bs[4]

(***************************************************************************)
(* The identifiers of the format.                                          *)
(***************************************************************************)
formID == <<70, 79, 82, 77>>

aiffID == <<65, 73, 70, 70>>

aifcID == <<65, 73, 70, 67>>

commID == <<67, 79, 77, 77>>

ssndID == <<83, 83, 78, 68>>

\* "NAME", a chunk the decoder has no case for
nameID == <<78, 65, 77, 69>>

\* "RIFF" and "WAVE": markers of another container
riffID == <<82, 73, 70, 70>>

waveID == <<87, 65, 86, 69>>

(***************************************************************************)
(* audio.IeeeFloatToInt                                                    *)
(***************************************************************************)
RECURSIVE BitAnd(_, _)
BitAnd(a, b) ==
    IF a = 0 \/ b = 0 THEN 0
    ELSE (a % 2) * (b % 2) + 2 * BitAnd(a \div 2, b \div 2)

RECURSIVE BitOr(_, _)
BitOr(a, b) ==
    IF a = 0 THEN b
    ELSE IF b = 0 THEN a
    ELSE (IF a % 2 = 1 \/ b % 2 = 1 THEN 1 ELSE 0) + 2 * BitOr(a \div 2, b \div 2)

\* uint32(x) << n for a byte x and n <= 23: below 2^31, nothing is shifted out
Shl(x, n) == x * 2^n

Shr(x, n) == x \div 2^n

\* IeeeFloatToInt with the mantissa shifted by 30 - b[1]
IeeeFloatToIntShift30(b) ==
    IF BitAnd(b[1], 128) = 1 THEN 0
    ELSE IF b[1] <= 63 THEN 1
    ELSE IF b[1] > 64 THEN 67108864
    ELSE IF b[1] = 64 /\ b[2] > 28 THEN 800000000
    ELSE LET i == BitOr(BitOr(BitOr(Shl(b[3], 23), Shl(b[4], 15)), Shl(b[5], 7)),
                        Shr(b[6], 1))
         IN  Shr(i, 30 - b[2])

\* IeeeFloatToInt with the sign test b[0] & 0x80 != 0
IeeeFloatToIntSigned(b) ==
    IF BitAnd(b[1], 128) # 0 THEN 0
    ELSE IF b[1] <= 63 THEN 1
    ELSE IF b[1] > 64 THEN 67108864
    ELSE IF b[1] = 64 /\ b[2] > 28 THEN 800000000
    ELSE LET i == BitOr(BitOr(BitOr(Shl(b[3], 23), Shl(b[4], 15)), Shl(b[5], 7)),
                        Shr(b[6], 1))
         IN  Shr(i, 29 - b[2])

IeeeFloatToInt(b) ==
    IF BitAnd(b[1], 128) = 1 THEN 0
    ELSE IF b[1] <= 63 THEN 1
    ELSE IF b[1] > 64 THEN 67108864
    ELSE IF b[1] = 64 /\ b[2] > 28 THEN 800000000
    ELSE LET i == BitOr(BitOr(BitOr(Shl(b[3], 23), Shl(b[4], 15)), Shl(b[5], 7)),
                        Shr(b[6], 1))
         IN  Shr(i, 29 - b[2])

(***************************************************************************)
(* Input files: the layout of spec section 6, written out byte by byte.    *)
(***************************************************************************)
Zeros(n) == [i \in 1..n |-> 0]

\* sample rates: IeeeFloatToInt takes them to 32000 and to 8000
sr32000 == <<64, 14, 125, 0, 0, 0, 0, 0, 0, 0>>

sr8000 == <<64, 12, 125, 0, 0, 0, 0, 0, 0, 0>>

\* the AIFC compression code "NONE" and its name "PCM"
encNone == <<78, 79, 78, 69>>

encName == <<80, 67, 77>>

CommPayload(fmt, ch, frames, bits, sr) ==
    BE16(ch) \o BE32(frames) \o BE16(bits) \o sr
        \o (IF fmt = aifcID THEN encNone \o <<Len(encName)>> \o encName ELSE <<>>)

\* info: what the writer of a COMM chunk meant (channels, bits, rate)
MkChunk(cid, payload) ==
    [id |-> cid, size |-> Len(payload), payload |-> payload, info |-> <<>>]

MkComm(fmt, ch, frames, bits, sr, rate) ==
    [MkChunk(commID, CommPayload(fmt, ch, frames, bits, sr)) EXCEPT !.info = <<ch, bits, rate>>]

CommChunks(fmt) ==
    { MkComm(fmt, 1, 3, 8, sr32000, 32000),
      MkComm(fmt, 2, 5, 16, sr8000, 8000) }

\* sound data: none, four zero bytes, eight bytes that spell the header of an
\* SSND chunk of size 1, and 26 zero bytes
SsndChunks ==
    { MkChunk(ssndID, <<>>),
      MkChunk(ssndID, Zeros(4)),
      MkChunk(ssndID, ssndID \o BE32(1)),
      MkChunk(ssndID, Zeros(26)) }

OtherChunks ==
    { MkChunk(nameID, <<>>),
      MkChunk(nameID, <<1, 2, 3>>) }

\* every order of at most c COMM, s SSND and o other chunks
RECURSIVE ChunkSeqs(_, _, _, _)
ChunkSeqs(fmt, c, s, o) ==
    {<<>>}
    \cup (IF c > 0 THEN {<<x>> \o t : x \in CommChunks(fmt), t \in ChunkSeqs(fmt, c - 1, s, o)}
          ELSE {})
    \cup (IF s > 0 THEN {<<x>> \o t : x \in SsndChunks, t \in ChunkSeqs(fmt, c, s - 1, o)}
          ELSE {})
    \cup (IF o > 0 THEN {<<x>> \o t : x \in OtherChunks, t \in ChunkSeqs(fmt, c, s, o - 1)}
          ELSE {})

ChunkBytes(c) == c.id \o BE32(c.size) \o c.payload

RECURSIVE Flatten(_)
Flatten(cs) == IF cs = <<>> THEN <<>> ELSE ChunkBytes(Head(cs)) \o Flatten(Tail(cs))

Headers ==
    { [form |-> formID, fmt |-> aiffID],
      [form |-> formID, fmt |-> aifcID],
      [form |-> formID, fmt |-> waveID],
      [form |-> riffID, fmt |-> aiffID] }

\* how an input ends: the bytes it lacks at its end (a cut falls in the payload,
\* in each field of a trailing COMM chunk, in the size or in the id of the last
\* header) and what the reader answers after its last byte
Endings ==
    { [cut |-> k, errKind |-> "EOF"] : k \in {0, 1, 4, 5, 9, 11, 13, 17, 19, 21, 23, 25} }
    \cup { [cut |-> k, errKind |-> "ioerr"] : k \in {0, 1} }

\* the COMM chunk of a file is laid out as the file's format marker says; behind
\* a header that readHeaders refuses, other chunks add nothing
Files ==
    UNION { { [form |-> h.form, fmt |-> h.fmt, chunks |-> cs, cut |-> e.cut] :
                cs \in ChunkSeqs(h.fmt, 1, 1,
                                 IF h.form = formID /\ h.fmt \in {aiffID, aifcID}
                                 THEN MaxOther ELSE 0),
                e \in Endings } :
            h \in Headers }

\* a sample rate that IeeeFloatToInt takes to 0
srZero == <<64, 0, 0, 0, 0, 0, 0, 0, 0, 0>>

\* a COMM chunk that declares and carries two bytes more than the parser reads
commPadded(fmt) ==
    [MkChunk(commID, CommPayload(fmt, 1, 3, 8, sr32000) \o <<0, 0>>)
        EXCEPT !.info = <<1, 8, 32000>>]

commZeroRate(fmt) == MkComm(fmt, 1, 3, 8, srZero, 0)

\* the compression code "sowt"
encSowt == <<115, 111, 119, 116>>

\* sound data that spells a COMM chunk of its own: 2 channels, 16 bits, 8000 Hz,
\* compression code "sowt" and the name "X"
ssndSpellsComm ==
    MkChunk(ssndID, commID \o BE32(24) \o BE16(2) \o BE32(5) \o BE16(16) \o sr8000
                        \o encSowt \o <<1, 88>>)

\* files beside the family above, whole and with one order each: a COMM chunk
\* with a remainder, a COMM chunk of sample rate 0, sound data that reads as a
\* COMM chunk
ExtraSeqs(fmt) ==
    { <<c, ssndSpellsComm>> : c \in CommChunks(fmt) }
    \cup { <<commPadded(fmt)>> \o t :
              t \in {<<>>} \cup { <<x>> : x \in SsndChunks \cup OtherChunks } }
    \cup { <<s, commPadded(fmt)>> : s \in SsndChunks }
    \cup { <<commZeroRate(fmt)>> \o t : t \in {<<>>, <<MkChunk(ssndID, Zeros(4))>>} }

ExtraFiles ==
    UNION { { [form |-> formID, fmt |-> fmt, chunks |-> cs, cut |-> 0] : cs \in ExtraSeqs(fmt) } :
            fmt \in {aiffID, aifcID} }

FullBytes(f) ==
    LET body == Flatten(f.chunks)
    IN  f.form \o BE32(4 + Len(body)) \o f.fmt \o body

FileBytes(f) ==
    LET full == FullBytes(f)
    IN  SubSeq(full, 1, IF Len(full) > f.cut THEN Len(full) - f.cut ELSE 0)

(***************************************************************************)
(* The reader r.                                                           *)
(***************************************************************************)
Avail(p) == IF Len(stream) > p THEN Len(stream) - p ELSE 0

\* binary.Read of n bytes at p (io.ReadFull): all n bytes or an error
Read(p, n) ==
    IF Avail(p) >= n
    THEN [err |-> "nil", data |-> SubSeq(stream, p + 1, p + n), pos |-> p + n]
    ELSE [err |-> IF errKind = "ioerr" THEN "ioerr"
                  ELSE IF Avail(p) = 0 THEN "EOF" ELSE "ErrUnexpectedEOF",
          data |-> <<>>, pos |-> p + Avail(p)]

\* io.CopyN(ioutil.Discard, r, n)
CopyN(p, n) ==
    IF Avail(p) >= n THEN [err |-> "nil", pos |-> p + n]
    ELSE [err |-> IF errKind = "ioerr" THEN "ioerr" ELSE "EOF", pos |-> p + Avail(p)]

\* jumpTo that takes the pad byte behind an odd number of bytes as well
jumpToPadded(p, bytesAhead) ==
    IF bytesAhead > 0 THEN CopyN(p, bytesAhead + (bytesAhead % 2)) ELSE [err |-> "nil", pos |-> p]

jumpTo(p, bytesAhead) ==
    IF bytesAhead > 0 THEN CopyN(p, bytesAhead) ELSE [err |-> "nil", pos |-> p]

\* r.Seek(off, 1): a position before the start is an error and r stays put
Seek(p, off) == IF p + off < 0 THEN p ELSE p + off

(***************************************************************************)
(* The Decoder and the Clip.                                               *)
(***************************************************************************)
ZeroDecoder ==
    [ID |-> Zeros(4), Size |-> 0, Format |-> Zeros(4), commSize |-> 0,
     NumChans |-> 0, NumSampleFrames |-> 0, SampleSize |-> 0, SampleRate |-> 0,
     Encoding |-> Zeros(4), EncodingName |-> <<>>]

ZeroClip == [channels |-> 0, bitDepth |-> 0, sampleRate |-> 0, size |-> 0, r |-> "nil"]

NoRet == [clip |-> "none", err |-> "none"]

NoOutcome == [ret |-> NoRet, channels |-> 0, bitDepth |-> 0, sampleRate |-> 0, size |-> 0]

NoChunk == [ID |-> <<>>, Size |-> 0]

NoDuration ==
    [recv |-> "none", duration |-> [kind |-> "none", frames |-> 0, rate |-> 0], err |-> "none"]

\* readHeaders without the test of the format marker
readHeadersAnyFormat(dd, p) ==
    LET r1 == Read(p, 4)
        d1 == [dd EXCEPT !.ID = r1.data]
        r2 == Read(p + 4, 4)
        d2 == [d1 EXCEPT !.Size = U32(r2.data)]
        r3 == Read(p + 8, 4)
        d3 == [d2 EXCEPT !.Format = r3.data]
    IN  IF r1.err # "nil" THEN [d |-> dd, pos |-> r1.pos, err |-> r1.err]
        ELSE IF d1.ID # formID THEN [d |-> d1, pos |-> r1.pos, err |-> "ErrFmtNotSupported"]
        ELSE IF r2.err # "nil" THEN [d |-> d1, pos |-> r2.pos, err |-> r2.err]
        ELSE IF r3.err # "nil" THEN [d |-> d2, pos |-> r3.pos, err |-> r3.err]
        ELSE [d |-> d3, pos |-> r3.pos, err |-> "nil"]

\* a read that follows a read of n bytes that passed starts n bytes further
readHeaders(dd, p) ==
    LET r1 == Read(p, 4)
        d1 == [dd EXCEPT !.ID = r1.data]
        r2 == Read(p + 4, 4)
        d2 == [d1 EXCEPT !.Size = U32(r2.data)]
        r3 == Read(p + 8, 4)
        d3 == [d2 EXCEPT !.Format = r3.data]
    IN  IF r1.err # "nil" THEN [d |-> dd, pos |-> r1.pos, err |-> r1.err]
        ELSE IF d1.ID # formID THEN [d |-> d1, pos |-> r1.pos, err |-> "ErrFmtNotSupported"]
        ELSE IF r2.err # "nil" THEN [d |-> d1, pos |-> r2.pos, err |-> r2.err]
        ELSE IF r3.err # "nil" THEN [d |-> d2, pos |-> r3.pos, err |-> r3.err]
        ELSE IF d3.Format # aiffID /\ d3.Format # aifcID
             THEN [d |-> d3, pos |-> r3.pos, err |-> "ErrFmtNotSupported"]
        ELSE [d |-> d3, pos |-> r3.pos, err |-> "nil"]

parseCommChunk(dd, p, sz) ==
    LET d0 == [dd EXCEPT !.commSize = sz]
        r1 == Read(p, 2)
        d1 == [d0 EXCEPT !.NumChans = U16(r1.data)]
        r2 == Read(p + 2, 4)
        d2 == [d1 EXCEPT !.NumSampleFrames = U32(r2.data)]
        r3 == Read(p + 6, 2)
        d3 == [d2 EXCEPT !.SampleSize = U16(r3.data)]
        r4 == Read(p + 8, 10)
        d4 == [d3 EXCEPT !.SampleRate = IeeeFloatToInt(r4.data)]
        r5 == Read(p + 18, 4)
        d5 == [d4 EXCEPT !.Encoding = r5.data]
        r6 == Read(p + 22, 1)
        r7 == Read(p + 23, r6.data[1])
        d7 == [d5 EXCEPT !.EncodingName = r7.data]
    IN  IF r1.err # "nil" THEN [d |-> d0, pos |-> r1.pos, err |-> "num of channels failed to parse"]
        ELSE IF r2.err # "nil"
             THEN [d |-> d1, pos |-> r2.pos, err |-> "num of sample frames failed to parse"]
        ELSE IF r3.err # "nil"
             THEN [d |-> d2, pos |-> r3.pos, err |-> "sample size failed to parse"]
        ELSE IF r4.err # "nil"
             THEN [d |-> d3, pos |-> r4.pos, err |-> "sample rate failed to parse"]
        ELSE IF d4.Format # aifcID THEN [d |-> d4, pos |-> r4.pos, err |-> "nil"]
        ELSE IF r5.err # "nil"
             THEN [d |-> d4, pos |-> r5.pos, err |-> "AIFC encoding failed to parse"]
        ELSE IF r6.err # "nil"
             THEN [d |-> d5, pos |-> r6.pos, err |-> "AIFC encoding failed to parse"]
        ELSE IF r7.err # "nil"
             THEN [d |-> d5, pos |-> r7.pos, err |-> "AIFC encoding failed to parse"]
        ELSE [d |-> d7, pos |-> r7.pos, err |-> "nil"]

\* iDnSize / IDnSize: the test of the second read is err != err, never true,
\* so a failed read of the size leaves blockSize 0 and answers nil
iDnSize(p) ==
    LET r1 == Read(p, 4)
        r2 == Read(p + 4, 4)
    IN  IF r1.err # "nil" THEN [ID |-> Zeros(4), blockSize |-> 0, err |-> r1.err, pos |-> r1.pos]
        ELSE IF r2.err # "nil" THEN [ID |-> r1.data, blockSize |-> 0, err |-> "nil", pos |-> r2.pos]
        ELSE [ID |-> r1.data, blockSize |-> U32(r2.data), err |-> "nil", pos |-> r2.pos]

(***************************************************************************)
(* The initial state: Decode(r) makes a Decoder without a channel;         *)
(* NewDecoder(r, c) registers one (second listing only).                   *)
(***************************************************************************)
Modes ==
    { [variant |-> 1, Chan |-> "nil"],
      [variant |-> 2, Chan |-> "nil"],
      [variant |-> 2, Chan |-> "chan"] }

Init ==
    \E f \in Files \cup ExtraFiles, m \in Modes, e \in Endings :
        /\ e.cut = f.cut
        /\ file = f
        /\ stream = FileBytes(f)
        /\ errKind = e.errKind
        /\ variant = m.variant
        /\ Chan = m.Chan
        /\ pos = 0
        /\ pc = "start"
        /\ d = ZeroDecoder
        /\ clip = ZeroClip
        /\ rewindBytes = 0
        /\ id = Zeros(4)
        /\ size = 0
        /\ hdrErr = "nil"
        /\ ret = NoRet
        /\ Wg = 0
        /\ chanq = <<>>
        /\ held = NoChunk
        /\ heldPos = 0
        /\ run = 1
        /\ first = NoOutcome
        /\ dur = NoDuration

env == <<file, stream, errKind, variant, Chan, run, first, dur>>

consumer == <<Wg, chanq, held, heldPos>>

(***************************************************************************)
(* Decode                                                                  *)
(***************************************************************************)
\* d.readHeaders() failed: return nil, err
HeadersFail ==
    /\ pc = "start"
    /\ LET h == readHeaders(d, pos)
       IN  /\ h.err # "nil"
           /\ d' = h.d
           /\ pos' = h.pos
           /\ ret' = [clip |-> "nil", err |-> h.err]
           /\ pc' = "done"
    /\ UNCHANGED <<env, consumer, clip, rewindBytes, id, size, hdrErr>>

\* d.readHeaders() passed: clip := &Clip{}, enter the loop
HeadersOk ==
    /\ pc = "start"
    /\ LET h == readHeaders(d, pos)
       IN  /\ h.err = "nil"
           /\ d' = h.d
           /\ pos' = h.pos
           /\ clip' = ZeroClip
           /\ pc' = "loop"
    /\ UNCHANGED <<env, consumer, rewindBytes, id, size, hdrErr, ret>>

\* id, size, err := d.iDnSize() with err == nil: go to the switch
NextChunk ==
    /\ pc = "loop"
    /\ LET h == iDnSize(pos)
       IN  /\ h.err = "nil"
           /\ id' = h.ID
           /\ size' = h.blockSize
           /\ hdrErr' = h.err
           /\ pos' = h.pos
           /\ pc' = "switch"
    /\ UNCHANGED <<env, consumer, d, clip, rewindBytes, ret>>

\* err != nil: break, clip.r = r, return clip, nil
BreakLoop ==
    /\ pc = "loop"
    /\ LET h == iDnSize(pos)
       IN  /\ h.err # "nil"
           /\ id' = h.ID
           /\ size' = h.blockSize
           /\ hdrErr' = h.err
           /\ pos' = h.pos
           /\ clip' = [clip EXCEPT !.r = "r"]
           /\ ret' = [clip |-> "clip", err |-> "nil"]
           /\ pc' = "done"
    /\ UNCHANGED <<env, consumer, d, rewindBytes>>

\* case commID that moves on to the end of the chunk as its size declares it
CaseCommToChunkEnd ==
    /\ pc = "switch"
    /\ id = commID
    /\ LET c == parseCommChunk(d, pos, size)
       IN  /\ d' = c.d
           /\ clip' = [clip EXCEPT !.channels = c.d.NumChans,
                                   !.bitDepth = c.d.SampleSize,
                                   !.sampleRate = c.d.SampleRate]
           /\ pos' = IF rewindBytes > 0 THEN Seek(c.pos, -rewindBytes) ELSE pos + size
    /\ pc' = "loop"
    /\ UNCHANGED <<env, consumer, rewindBytes, id, size, hdrErr, ret>>

\* case commID: the break after the Seek leaves the switch, not the loop
CaseComm ==
    /\ pc = "switch"
    /\ id = commID
    /\ LET c == parseCommChunk(d, pos, size)
       IN  /\ d' = c.d
           /\ clip' = [clip EXCEPT !.channels = c.d.NumChans,
                                   !.bitDepth = c.d.SampleSize,
                                   !.sampleRate = c.d.SampleRate]
           /\ pos' = IF rewindBytes > 0 THEN Seek(c.pos, -rewindBytes) ELSE c.pos
    /\ pc' = "loop"
    /\ UNCHANGED <<env, consumer, rewindBytes, id, size, hdrErr, ret>>

\* jumpTo failed in the first listing: return nil, err
SkipV1(sz) ==
    LET j == jumpTo(pos, sz)
    IN  /\ pos' = j.pos
        /\ IF j.err # "nil"
           THEN ret' = [clip |-> "nil", err |-> j.err] /\ pc' = "done"
           ELSE ret' = ret /\ pc' = "loop"
        /\ UNCHANGED consumer

\* dispatchToChan(id, size), up to d.Wg.Wait(); Decode drops what it returns
dispatchToChan(cid, sz) ==
    IF Chan = "nil"
    THEN LET j == jumpTo(pos, sz)
         IN  /\ pos' = j.pos
             /\ pc' = "loop"
             /\ UNCHANGED <<ret, consumer>>
    ELSE /\ Wg' = Wg + 1
         /\ chanq' = Append(chanq, [ID |-> cid, Size |-> sz])
         /\ pc' = "wait"
         /\ UNCHANGED <<pos, ret, held, heldPos>>

Skip(cid, sz) == IF variant = 1 THEN SkipV1(sz) ELSE dispatchToChan(cid, sz)

\* case ssndID: the break of the else branch leaves the switch, not the loop
CaseSsnd ==
    /\ pc = "switch"
    /\ id = ssndID
    /\ clip' = [clip EXCEPT !.size = size]
    /\ IF clip.sampleRate = 0
       THEN /\ rewindBytes' = rewindBytes + size
            /\ Skip(id, size)
       ELSE /\ pc' = "loop"
            /\ UNCHANGED <<rewindBytes, pos, ret, consumer>>
    /\ UNCHANGED <<env, d, id, size, hdrErr>>

\* default:
CaseDefault ==
    /\ pc = "switch"
    /\ id # commID
    /\ id # ssndID
    /\ rewindBytes' = IF clip.size # 0 THEN rewindBytes + size ELSE rewindBytes
    /\ Skip(id, size)
    /\ UNCHANGED <<env, d, clip, id, size, hdrErr>>

\* d.Wg.Wait() left out: dispatchToChan returns right after the send
WgWaitNoBlock ==
    /\ pc = "wait"
    /\ pc' = "loop"
    /\ UNCHANGED <<env, consumer, pos, d, clip, rewindBytes, id, size, hdrErr, ret>>

\* d.Wg.Wait() returns, dispatchToChan returns nil, the loop goes on
WgWait ==
    /\ pc = "wait"
    /\ Wg = 0
    /\ pc' = "loop"
    /\ UNCHANGED <<env, consumer, pos, d, clip, rewindBytes, id, size, hdrErr, ret>>

(***************************************************************************)
(* The consumer of d.Chan: it receives a record, may read the payload,     *)
(* and calls Done, which skips what is left of the payload and signals.    *)
(***************************************************************************)
Receive ==
    /\ chanq # <<>>
    /\ held = NoChunk
    /\ held' = Head(chanq)
    /\ chanq' = Tail(chanq)
    /\ heldPos' = 0
    /\ UNCHANGED <<env, Wg, pos, pc, d, clip, rewindBytes, id, size, hdrErr, ret>>

ConsumerRead ==
    /\ held # NoChunk
    /\ heldPos < MaxPeek
    /\ heldPos < held.Size
    /\ Avail(pos) > 0
    /\ pos' = pos + 1
    /\ heldPos' = heldPos + 1
    /\ UNCHANGED <<env, Wg, chanq, held, pc, d, clip, rewindBytes, id, size, hdrErr, ret>>

ChunkDone ==
    /\ held # NoChunk
    /\ pos' = jumpTo(pos, held.Size - heldPos).pos
    /\ Wg' = Wg - 1
    /\ held' = NoChunk
    /\ heldPos' = 0
    /\ UNCHANGED <<env, chanq, pc, d, clip, rewindBytes, id, size, hdrErr, ret>>

Next ==
    \/ HeadersFail
    \/ HeadersOk
    \/ NextChunk
    \/ BreakLoop
    \/ CaseComm
    \/ CaseSsnd
    \/ CaseDefault
    \/ WgWait
    \/ Receive
    \/ ConsumerRead
    \/ ChunkDone

Spec == Init /\ [][Next]_vars

\* Decode runs on; the consumer serves what it was sent
FairSpec == Spec /\ WF_vars(Next)

(***************************************************************************)
(* Where the chunks of the input lie.                                      *)
(***************************************************************************)
HasId(cs, cid) == \E i \in 1..Len(cs) : cs[i].id = cid

IndexOf(cs, cid) == CHOOSE i \in 1..Len(cs) : cs[i].id = cid /\ \A j \in 1..(i - 1) : cs[j].id # cid

RECURSIVE ChunksLen(_, _)
ChunksLen(cs, n) == IF n = 0 THEN 0 ELSE ChunksLen(cs, n - 1) + 8 + cs[n].size

\* the offset of the first payload byte of the i-th chunk
PayloadStart(f, i) == 12 + ChunksLen(f.chunks, i - 1) + 8

WellFormed(f) == f.form = formID /\ f.fmt \in {aiffID, aifcID} /\ f.cut = 0

HasBoth(f) == HasId(f.chunks, commID) /\ HasId(f.chunks, ssndID)

CommFirst(f) == HasBoth(f) /\ IndexOf(f.chunks, commID) < IndexOf(f.chunks, ssndID)

SsndFirst(f) == HasBoth(f) /\ IndexOf(f.chunks, ssndID) < IndexOf(f.chunks, commID)

CommOf(f) == f.chunks[IndexOf(f.chunks, commID)]

SsndOf(f) == f.chunks[IndexOf(f.chunks, ssndID)]

SsndStart(f) == PayloadStart(f, IndexOf(f.chunks, ssndID))

CommStart(f) == PayloadStart(f, IndexOf(f.chunks, commID))

\* the same chunks with the COMM and the SSND chunk in each other's place
Reordered(f) ==
    LET c == IndexOf(f.chunks, commID)
        s == IndexOf(f.chunks, ssndID)
    IN  [f EXCEPT !.chunks = [i \in 1..Len(f.chunks) |->
                                 IF i = c THEN f.chunks[s]
                                 ELSE IF i = s THEN f.chunks[c]
                                 ELSE f.chunks[i]]]

Outcome ==
    [ret |-> ret, channels |-> clip.channels, bitDepth |-> clip.bitDepth,
     sampleRate |-> clip.sampleRate, size |-> clip.size]

\* a second call of Decode, on a fresh reader over the reordered file
DecodeReordered ==
    /\ pc = "done"
    /\ run = 1
    /\ WellFormed(file)
    /\ CommFirst(file)
    /\ first' = Outcome
    /\ run' = 2
    /\ file' = Reordered(file)
    /\ stream' = FileBytes(Reordered(file))
    /\ pos' = 0
    /\ pc' = "start"
    /\ d' = ZeroDecoder
    /\ clip' = ZeroClip
    /\ rewindBytes' = 0
    /\ id' = Zeros(4)
    /\ size' = 0
    /\ hdrErr' = "nil"
    /\ ret' = NoRet
    /\ UNCHANGED <<errKind, variant, Chan, consumer, dur>>

NextOrder == Next \/ DecodeReordered

SpecOrder == Init /\ [][NextOrder]_vars

(***************************************************************************)
(* Duration.  The value of float64(frames) / float64(rate) * 1e9 is kept   *)
(* as the pair it is computed from (kind "ns").  With rate 0 the quotient is +Inf, or  *)
(* NaN for 0 frames; what the conversion of such a value to int64 gives    *)
(* depends on the implementation: the smallest int64 on amd64; the largest *)
(* int64 for +Inf and 0 for NaN on arm64.                                  *)
(***************************************************************************)
Duration(recv, dd) ==
    IF recv = "nil"
    THEN { [recv |-> recv, duration |-> [kind |-> "zero", frames |-> 0, rate |-> 0],
            err |-> "can't calculate the duration of a nil pointer"] }
    ELSE IF dd.SampleRate = 0
    THEN { [recv |-> recv,
            duration |-> [kind |-> k, frames |-> dd.NumSampleFrames, rate |-> 0],
            err |-> "nil"] :
             k \in IF dd.NumSampleFrames = 0 THEN {"MinInt64", "zero"}
                   ELSE {"MinInt64", "MaxInt64"} }
    ELSE { [recv |-> recv,
            duration |-> [kind |-> "ns", frames |-> dd.NumSampleFrames, rate |-> dd.SampleRate],
            err |-> "nil"] }

\* the owner of the decoder asks for the duration: before the traversal, from
\* the consumer while it holds a chunk, or after the traversal; the model
\* follows the decoder no further
CallDuration ==
    /\ pc \in {"start", "done"} \/ (pc = "wait" /\ held # NoChunk)
    /\ \E recv \in {"nil", "d"} : dur' \in Duration(recv, d)
    /\ pc' = "duration"
    /\ UNCHANGED <<file, stream, errKind, variant, Chan, run, first, consumer, pos, d, clip,
                   rewindBytes, id, size, hdrErr, ret>>

NextDuration == Next \/ CallDuration

SpecDuration == Init /\ [][NextDuration]_vars

(***************************************************************************)
(* The sample-rate field on its own: parseCommChunk reads the ten bytes    *)
(* srBytes and stores audio.IeeeFloatToInt(srBytes).                       *)
(***************************************************************************)
\* the values each byte of srBytes is drawn from; bytes 6..9 are alike
Byte0s == {0, 63, 64, 65, 127, 128, 129, 255}

Byte1s == {0, 1, 14, 28, 29, 255}

Byte2s == {0, 125, 172, 255}

Byte3s == {0, 68, 255}

Byte4s == {0, 255}

Byte5s == {0, 1, 255}

TailBytes == {0, 255}

\* no container around the field
NoFile == [form |-> <<>>, fmt |-> <<>>, chunks |-> <<>>, cut |-> 0]

InitRate ==
    \E b0 \in Byte0s, b1 \in Byte1s, b2 \in Byte2s, b3 \in Byte3s, b4 \in Byte4s,
       b5 \in Byte5s, t \in TailBytes :
        /\ file = NoFile
        /\ stream = <<b0, b1, b2, b3, b4, b5, t, t, t, t>>
        /\ errKind = "EOF"
        /\ variant = 2
        /\ Chan = "nil"
        /\ pos = 0
        /\ pc = "srBytes"
        /\ d = ZeroDecoder
        /\ clip = ZeroClip
        /\ rewindBytes = 0
        /\ id = commID
        /\ size = 0
        /\ hdrErr = "nil"
        /\ ret = NoRet
        /\ Wg = 0
        /\ chanq = <<>>
        /\ held = NoChunk
        /\ heldPos = 0
        /\ run = 1
        /\ first = NoOutcome
        /\ dur = NoDuration

\* binary.Read(d.r, binary.BigEndian, &srBytes); d.SampleRate = IeeeFloatToInt(srBytes)
ReadSampleRate ==
    /\ pc = "srBytes"
    /\ LET r == Read(pos, 10)
       IN  /\ r.err = "nil"
           /\ d' = [d EXCEPT !.SampleRate = IeeeFloatToInt(r.data)]
           /\ pos' = r.pos
    /\ pc' = "srDone"
    /\ UNCHANGED <<env, consumer, clip, rewindBytes, id, size, hdrErr, ret>>

SpecRate == InitRate /\ [][ReadSampleRate]_vars

(***************************************************************************)
(* Properties.                                                             *)
(***************************************************************************)
Returned == pc = "done"

ReturnedClip == pc = "done" /\ ret = [clip |-> "clip", err |-> "nil"]

\* C1: for a well-formed stream with COMM before SSND, Decode returns without
\* error a clip with the channel count, bit depth and sample rate of COMM and
\* the declared size of SSND.
C1_CommFirstClip ==
    (Returned /\ WellFormed(file) /\ CommFirst(file)) =>
        /\ ReturnedClip
        /\ <<clip.channels, clip.bitDepth, clip.sampleRate>> = CommOf(file).info
        /\ clip.size = SsndOf(file).size

\* C2: Decode on the file with SSND before COMM returns the outcome Decode
\* returned on the same content with COMM before SSND.
C2_OrderIndependence ==
    (Returned /\ run = 2) => Outcome = first

\* C3: for a well-formed stream with COMM before SSND, Decode returns with the
\* stream at the first byte of the SSND payload, having read nothing past the
\* SSND header.
C3_StopsAtSsnd ==
    (Returned /\ WellFormed(file) /\ CommFirst(file)) => pos = SsndStart(file)

\* C4: when SSND was skipped before COMM, the step that parses COMM and seeks
\* back by rewindBytes leaves the stream at the first byte of the SSND payload.
C4_RewindToSsnd ==
    [][(/\ pc = "switch" /\ id = commID /\ rewindBytes > 0
        /\ WellFormed(file) /\ SsndFirst(file) /\ pos = CommStart(file))
       => pos' = SsndStart(file)]_vars

\* C5: Decode terminates on every input.
C5_Terminates == <>(pc = "done")

\* the first four bytes are not "FORM", or bytes 8..11 are neither "AIFF" nor "AIFC"
BadHeader ==
    \/ Len(stream) >= 4 /\ SubSeq(stream, 1, 4) # <<70, 79, 82, 77>>
    \/ Len(stream) >= 12 /\ SubSeq(stream, 9, 12) \notin {<<65, 73, 70, 70>>, <<65, 73, 70, 67>>}

\* C6: on a stream with a bad form or format marker Decode returns a format
\* error and no clip, never reads a chunk header and consumes at most the 12
\* bytes of the header.
C6_HeaderValidation ==
    BadHeader =>
        /\ pc \in {"start", "done"}
        /\ pos <= 12
        /\ id = Zeros(4) /\ size = 0 /\ hdrErr = "nil"
        /\ pc = "done" => ret = [clip |-> "nil", err |-> "ErrFmtNotSupported"]

\* Decode has returned on a stream whose form marker is right and whose format
\* marker is not
C6_Witness ==
    /\ pc = "done" /\ BadHeader /\ pos = 12
    /\ SubSeq(stream, 1, 4) = <<70, 79, 82, 77>>
    /\ ret = [clip |-> "nil", err |-> "ErrFmtNotSupported"]

\* C7: a field read that fails inside COMM makes Decode return that error and
\* no clip.
C7_CommParseErrorAborts ==
    [][(pc = "switch" /\ id = commID /\ parseCommChunk(d, pos, size).err # "nil")
       => (pc' = "done" /\ ret' = [clip |-> "nil", err |-> parseCommChunk(d, pos, size).err])]_vars

\* C8: a chunk-header read that fails with EOF ends the loop with a clip and
\* no error; one that fails with another error makes Decode return that error.
C8_HeaderReadErrors ==
    (Returned /\ hdrErr # "nil") =>
        IF hdrErr = "EOF" THEN ret = [clip |-> "clip", err |-> "nil"]
        ELSE ret = [clip |-> "nil", err |-> hdrErr]

\* C9: without a consumer, a failed skip of the payload of a chunk other than
\* COMM (an SSND chunk before COMM included) makes Decode return that error
\* and no clip.
C9_SkipErrorAborts ==
    [][(/\ pc = "switch" /\ id # commID /\ (id = ssndID => clip.sampleRate = 0)
        /\ Chan = "nil" /\ jumpTo(pos, size).err # "nil")
       => (pc' = "done" /\ ret' = [clip |-> "nil", err |-> jumpTo(pos, size).err])]_vars

\* the handoff records that were sent and are not yet signalled as done
Outstanding == Len(chanq) + (IF held = NoChunk THEN 0 ELSE 1)

\* C10: with a channel registered, a dispatch hands over exactly one record;
\* while a record is outstanding the engine waits, no byte is read but by the
\* consumer, and the dispatch returns only when the wait-group counter is
\* back to zero; at most one record is outstanding at any time.
C10_Rendezvous ==
    /\ [](/\ Outstanding <= 1
          /\ Wg = Outstanding
          /\ Outstanding > 0 => (Chan = "chan" /\ pc = "wait"))
    /\ [][(pc = "switch" /\ pc' = "wait")
          => (/\ chanq' = Append(chanq, [ID |-> id, Size |-> size])
              /\ Outstanding' = Outstanding + 1
              /\ pos' = pos)]_vars
    /\ [][(pc = "wait" /\ pc' # "wait") => (Wg = 0 /\ Outstanding = 0 /\ pos' = pos)]_vars
    /\ [][(Outstanding > 0 /\ pos' # pos)
          => (held # NoChunk /\ UNCHANGED <<pc, d, clip, rewindBytes, id, size, ret>>)]_vars

\* the engine waits in a dispatch while the consumer reads the payload
C10_Witness ==
    Chan = "chan" /\ pc = "wait" /\ Wg = 1 /\ held # NoChunk /\ heldPos > 0

\* the value section 4.4 of the specification documents, with sums and
\* quotients for the shifts; the mantissa is below 2^31, so mod 2^32 leaves it
DocumentedValue(b) ==
    IF b[1] <= 63 THEN 1
    ELSE IF b[1] > 64 THEN 67108864
    ELSE IF b[2] > 28 THEN 800000000
    ELSE (b[3] * 8388608 + b[4] * 32768 + b[5] * 128 + b[6] \div 2) \div 2^(29 - b[2])

\* C12: on every ten bytes with byte 0 below 0x80 IeeeFloatToInt gives the
\* documented value: 1 for byte 0 <= 0x3F, 67108864 for byte 0 > 0x40,
\* 800000000 for byte 0 = 0x40 and byte 1 > 0x1C, else the mantissa of bytes
\* 2..5 shifted right by 29 - byte 1 (40 0E AC 44 00 .. gives 44100); bytes
\* 6..9 have no part in it.
C12_FloatReference ==
    (pc = "srDone" /\ stream[1] < 128) =>
        /\ d.SampleRate = DocumentedValue(SubSeq(stream, 1, 6))
        /\ SubSeq(stream, 1, 4) = <<64, 14, 172, 68>> /\ stream[5] = 0 /\ stream[6] <= 1
              => d.SampleRate = 44100

\* 40 0E AC 44 00 00 with bytes 6..9 set has been converted to 44100
C12_Witness ==
    /\ pc = "srDone"
    /\ stream = <<64, 14, 172, 68, 0, 0, 255, 255, 255, 255>>
    /\ d.SampleRate = 44100

C13_EncodingFields ==
    (Returned /\ run = 1 /\ WellFormed(file)) =>
        /\ (file.fmt = aifcID /\ HasId(file.chunks, commID) /\ CommOf(file).payload[23] > 0)
              => LET pl == CommOf(file).payload
                 IN  /\ d.EncodingName = SubSeq(pl, 24, 23 + pl[23])
                     /\ d.Encoding = SubSeq(pl, 19, 22)
        /\ file.fmt = aiffID => (d.EncodingName = <<>> /\ d.Encoding = Zeros(4))

\* C14: Duration on a decoder whose sample rate is 0 returns an error (the
\* code defines no sentinel) and not what the division by zero gives;
\* Duration on a nil decoder returns an error.
C14_DurationZeroRate ==
    [][(pc' = "duration" /\ pc # "duration")
       => ((dur'.recv = "nil" \/ d.SampleRate = 0) => dur'.err # "nil")]_vars

\* the declared sizes of the chunks after the i-th and before the j-th
RECURSIVE SizesBetween(_, _, _)
SizesBetween(cs, i, j) == IF i + 1 >= j THEN 0 ELSE cs[i + 1].size + SizesBetween(cs, i + 1, j)

\* C15: the rewind accumulator grows only while the format is unknown: when
\* the header of the COMM chunk behind SSND has been read it is the declared
\* size of SSND plus the declared sizes of the chunks between the two; a chunk
\* read after COMM was parsed, or before any SSND header, does not change it.
C15_RewindAccumulator ==
    /\ []((/\ pc = "switch" /\ id = commID /\ clip.sampleRate = 0
           /\ WellFormed(file) /\ SsndFirst(file) /\ pos = CommStart(file))
          => rewindBytes = SsndOf(file).size
                 + SizesBetween(file.chunks, IndexOf(file.chunks, ssndID),
                                IndexOf(file.chunks, commID)))
    /\ [][clip.sampleRate # 0 => rewindBytes' = rewindBytes]_vars
    /\ [][(/\ WellFormed(file)
           /\ ~HasId(file.chunks, ssndID) \/ pos < SsndStart(file)
           /\ rewindBytes = 0)
          => rewindBytes' = 0]_vars

\* C16: when the read of the id or the read of the size of a chunk header
\* fails, the header primitive returns that error: a header cut inside its
\* size is not answered as (id, 0, nil) and never reaches the switch.
C16_HeaderErrorReturned ==
    [][(pc = "loop" /\ (Read(pos, 4).err # "nil" \/ Read(pos + 4, 4).err # "nil"))
       => /\ hdrErr' = (IF Read(pos, 4).err # "nil" THEN Read(pos, 4).err
                        ELSE Read(pos + 4, 4).err)
          /\ pc' # "switch"]_vars

\* the bytes the fields of a COMM chunk at p take: 18, and for AIFC the code,
\* the length byte and the name as well
CommFieldBytes(p) == IF d.Format = aifcID THEN 18 + 4 + 1 + stream[p + 23] ELSE 18

C19_SkipByDeclaredSize ==
    [][(/\ pc = "switch" /\ Chan = "nil" /\ id # commID
        /\ (id = ssndID => clip.sampleRate = 0)
        /\ Avail(pos) >= size)
       => (pos' = pos + size /\ pc' = "loop")]_vars

\* a first chunk of declared size 3 has been skipped and another chunk follows
C19_Witness ==
    /\ pc = "loop" /\ Chan = "nil" /\ WellFormed(file) /\ Len(file.chunks) >= 2
    /\ file.chunks[1].id = nameID /\ file.chunks[1].size = 3
    /\ id = nameID /\ size = 3
    /\ pos = PayloadStart(file, 1) + 3

====
